---- MODULE Spec2Model ----
(***************************************************************************)
(* Rule-based decision pipeline of the repository:                         *)
(*   - src/Tugas_Mandiri.py  : RegistrationService.register_course applies *)
(*     an ordered list of IValidationRule objects to (student, course) and *)
(*     commits the registration only when every rule passes;               *)
(*   - src/refactor_solid.py : CheckoutService.run_checkout delegates to a *)
(*     payment processor and a notifier; OrderManager.process_checkout is  *)
(*     the pre-refactoring version kept next to it.                        *)
(* Every call is one synchronous pass, so each operation is one action.    *)
(* The variables below the entities describe the last completed call: its  *)
(* arguments, the entities as they were when it started, what it invoked,  *)
(* what it logged and what it returned.                                    *)
(***************************************************************************)
EXTENDS Integers, Sequences, FiniteSets, TLC

VARIABLES
    student,           \* the Student object handed to register_course
    courses,           \* the Course objects, by course code
    orders,            \* the Order objects, by variable name
    op,                \* the operation of the last completed call
    ret,               \* its return value
    log,               \* the records it emitted through LOGGER, in order
    validation_rules,  \* RegistrationService.validation_rules of the coordinator used
    course_arg,        \* code of the course passed to register_course
    pre_student,       \* the student when the call started
    evaluated,         \* the rule.validate invocations of the call, in order
    order_arg,         \* name of the order passed to the checkout call
    payment_arg,       \* processor injected (run_checkout) / payment_method (process_checkout)
    pre_orders,        \* the orders when the call started
    payment_calls,     \* number of payment_processor.process invocations in the call
    notifier_calls     \* number of notifier.send invocations in the call

vars == <<student, courses, orders, op, ret, log, validation_rules, course_arg,
          pre_student, evaluated, order_arg, payment_arg, pre_orders,
          payment_calls, notifier_calls>>

----------------------------------------------------------------------------
(* Bounds *)

\* register_course is explored while the schedule holds fewer slots than this
MaxSchedule == 4

----------------------------------------------------------------------------
(* Data *)

\* SksLimitRule.MAX_SKS
MAX_SKS == 24

\* The concrete IValidationRule classes
Rules == {"SksLimitRule", "PrerequisiteRule", "JadwalBentrokRule"}

\* student_andi, student_budi
Students ==
    { [name |-> "Andi", current_sks |-> 15, prerequisites_met |-> TRUE,
       schedule |-> <<"Selasa_10.00", "Rabu_13.00">>],
      [name |-> "Budi", current_sks |-> 22, prerequisites_met |-> FALSE,
       schedule |-> <<"Jumat_08.00">>] }

\* course_pbo, course_pweb, course_statis, and a 2-sks course that takes a
\* 22-sks student exactly to MAX_SKS and sits in a slot one student holds
Catalogue ==
    [c \in {"PBO", "Pweb", "Statis", "Basdat"} |->
        CASE c = "PBO"    -> [code |-> "PBO", sks |-> 3, prerequisite_needed |-> FALSE,
                              schedule_code |-> "Senin_08.00"]
          [] c = "Pweb"   -> [code |-> "Pweb", sks |-> 4, prerequisite_needed |-> TRUE,
                              schedule_code |-> "Selasa_10.00"]
          [] c = "Statis" -> [code |-> "Statis", sks |-> 3, prerequisite_needed |-> TRUE,
                              schedule_code |-> "Selasa_14.00"]
          [] c = "Basdat" -> [code |-> "Basdat", sks |-> 2, prerequisite_needed |-> FALSE,
                              schedule_code |-> "Jumat_08.00"]]

\* Order: status defaults to "open"
Order(customer_name, total_price) ==
    [customer_name |-> customer_name, total_price |-> total_price, status |-> "open"]

\* andi_order, budi_order
InitialOrders ==
    [o \in {"andi_order", "budi_order"} |->
        IF o = "andi_order" THEN Order("Andi", 500000) ELSE Order("Budi", 100000)]

\* Implementations of IPaymentProcessor: the two of the repository, which
\* accept every order, and one whose process() returns False
Processors == {"CreditCardProcessor", "QrisProcessor", "DecliningProcessor"}

\* payment_method strings given to OrderManager.process_checkout
PaymentMethods == {"credit_card", "bank_transfer", "cash"}

\* Every ordered list of distinct rule instances
RuleLists ==
    UNION { { r \in [1..n -> Rules] : \A i, j \in 1..n : i # j => r[i] # r[j] }
            : n \in 0..Cardinality(Rules) }

Range(s) == { s[i] : i \in 1..Len(s) }

\* One LOGGER record
Rec(level, msg, who) == [level |-> level, msg |-> msg, who |-> who]

----------------------------------------------------------------------------
(* src/Tugas_Mandiri.py: the validation rules.  validate() returns a bool *)
(* and may emit one WARNING; it assigns to nothing.                      *)

Pass == [result |-> TRUE, log |-> <<>>]
Fail(msg, who) == [result |-> FALSE, log |-> <<Rec("WARNING", msg, who)>>]

\* A limit check that compares with >= where the code compares with >
SksLimitRule_validate_ge(s, c) ==
    IF s.current_sks + c.sks >= MAX_SKS THEN Fail("GAGAL SKS", s.name) ELSE Pass

\* A limit check that forgets the weight of the course being added
SksLimitRule_validate_load_only(s, c) ==
    IF s.current_sks > MAX_SKS THEN Fail("GAGAL SKS", s.name) ELSE Pass

\* SksLimitRule.validate
SksLimitRule_validate(s, c) ==
    IF s.current_sks + c.sks > MAX_SKS THEN Fail("GAGAL SKS", s.name) ELSE Pass

\* PrerequisiteRule.validate
PrerequisiteRule_validate(s, c) ==
    IF c.prerequisite_needed /\ ~s.prerequisites_met
    THEN Fail("GAGAL PRASYARAT", s.name)
    ELSE Pass

\* A conflict check that looks at the most recently held slot only
JadwalBentrokRule_validate_last(s, c) ==
    IF Len(s.schedule) > 0 /\ c.schedule_code = s.schedule[Len(s.schedule)]
    THEN Fail("GAGAL BENTROK", s.name)
    ELSE Pass

\* JadwalBentrokRule.validate
JadwalBentrokRule_validate(s, c) ==
    IF c.schedule_code \in Range(s.schedule)
    THEN Fail("GAGAL BENTROK", s.name)
    ELSE Pass

\* rule.validate(student, course): dynamic dispatch on the rule's class
validate(rule, s, c) ==
    CASE rule = "SksLimitRule"      -> SksLimitRule_validate(s, c)
      [] rule = "PrerequisiteRule"  -> PrerequisiteRule_validate(s, c)
      [] rule = "JadwalBentrokRule" -> JadwalBentrokRule_validate(s, c)

\* The diagnostic each rule emits on failure
Diagnostic(rule) ==
    CASE rule = "SksLimitRule"      -> "GAGAL SKS"
      [] rule = "PrerequisiteRule"  -> "GAGAL PRASYARAT"
      [] rule = "JadwalBentrokRule" -> "GAGAL BENTROK"

----------------------------------------------------------------------------
(* src/Tugas_Mandiri.py: RegistrationService.register_course             *)

Invocation(rule, v) == [rule |-> rule, result |-> v.result]

\* A loop that reports every violation before giving up
RECURSIVE CollectAll(_, _, _, _, _)
CollectAll(rules, i, s, c, acc) ==
    IF i > Len(rules)
    THEN IF acc.passed THEN acc
         ELSE [acc EXCEPT !.log = @ \o <<Rec("INFO", "Pendaftaran dibatalkan", "")>>]
    ELSE LET v == validate(rules[i], s, c)
         IN  CollectAll(rules, i + 1, s, c,
                 [passed    |-> acc.passed /\ v.result,
                  evaluated |-> Append(acc.evaluated, Invocation(rules[i], v)),
                  log       |-> acc.log \o v.log])

\* for rule in self.validation_rules: if not rule.validate(student, course):
\*     LOGGER.info("Pendaftaran dibatalkan"); return False
RECURSIVE RunRules(_, _, _, _, _)
RunRules(rules, i, s, c, acc) ==
    IF i > Len(rules)
    THEN acc
    ELSE LET v    == validate(rules[i], s, c)
             seen == [passed    |-> v.result,
                      evaluated |-> Append(acc.evaluated, Invocation(rules[i], v)),
                      log       |-> acc.log \o v.log]
         IN  IF ~v.result
             THEN [seen EXCEPT !.log = @ \o <<Rec("INFO", "Pendaftaran dibatalkan", "")>>]
             ELSE RunRules(rules, i + 1, s, c, seen)

LoopStart(s, c) ==
    [passed |-> TRUE, evaluated |-> <<>>,
     log |-> <<Rec("INFO", "Memulai Pendaftaran", s.name)>>]

validation_loop_collect_all(rules, s, c) == CollectAll(rules, 1, s, c, LoopStart(s, c))

\* Lines 104-111: the start record and the loop over the injected rules
validation_loop(rules, s, c) == RunRules(rules, 1, s, c, LoopStart(s, c))

\* A commit that puts the new slot in front of the held ones
commit_prepend(s, c) ==
    [s EXCEPT !.current_sks = @ + c.sks, !.schedule = <<c.schedule_code>> \o @]

\* Lines 114-115: student.current_sks += course.sks;
\*                student.schedule.append(course.schedule_code)
commit(s, c) ==
    [s EXCEPT !.current_sks = @ + c.sks, !.schedule = Append(@, c.schedule_code)]

Outcome(s, c, r, l, rv) ==
    [student |-> s, course |-> c, evaluated |-> r.evaluated, log |-> l, ret |-> rv]

Success(c) == Rec("INFO", "Pendaftaran berhasil", c.code)

\* A coordinator that lets the first rule alone decide
register_course_first_rule(rules, s, c) ==
    LET r == validation_loop(SubSeq(rules, 1, IF Len(rules) > 0 THEN 1 ELSE 0), s, c)
    IN  IF r.passed
        THEN Outcome(commit(s, c), c, r, r.log \o <<Success(c)>>, TRUE)
        ELSE Outcome(s, c, r, r.log, FALSE)

\* A coordinator that adds the credits before it validates
register_course_credits_first(rules, s, c) ==
    LET r == validation_loop(rules, s, c)
        t == [s EXCEPT !.current_sks = @ + c.sks]
    IN  IF r.passed
        THEN Outcome(commit(s, c), c, r, r.log \o <<Success(c)>>, TRUE)
        ELSE Outcome(t, c, r, r.log, FALSE)

\* RegistrationService.register_course(student, course) of a coordinator
\* whose validation_rules is rules: the student and the course after the
\* call, the validate invocations, the log records and the return value
register_course(rules, s, c) ==
    LET r == validation_loop(rules, s, c)
    IN  IF r.passed
        THEN Outcome(commit(s, c), c, r, r.log \o <<Success(c)>>, TRUE)
        ELSE Outcome(s, c, r, r.log, FALSE)

----------------------------------------------------------------------------
(* src/refactor_solid.py                                                  *)

\* payment_processor.process(order): CreditCardProcessor and QrisProcessor
\* log one record and return True
process(processor, order) ==
    CASE processor = "CreditCardProcessor" ->
             [result |-> TRUE,
              log |-> <<Rec("INFO", "Payment: Memproses kartu kredit", "")>>]
      [] processor = "QrisProcessor" ->
             [result |-> TRUE, log |-> <<Rec("INFO", "Payment: Memproses QRIS", "")>>]
      [] processor = "DecliningProcessor" ->
             [result |-> FALSE, log |-> <<>>]

\* EmailNotifier.send(order): one record, no return value
send(order) == <<Rec("INFO", "Notif: Mengirim mail konfirmasi", order.customer_name)>>

Started(order) == <<Rec("INFO", "Memulai checkout", order.customer_name)>>

CheckoutOutcome(order, pc, nc, l, rv) ==
    [order |-> order, payment_calls |-> pc, notifier_calls |-> nc, log |-> l, ret |-> rv]

\* A checkout that notifies the customer whatever the processor answered
run_checkout_notify_always(processor, order) ==
    LET payment == process(processor, order)
        paid    == [order EXCEPT !.status = "paid"]
    IN  IF payment.result
        THEN CheckoutOutcome(paid, 1, 1,
                 Started(order) \o payment.log \o send(paid)
                     \o <<Rec("INFO", "Checkout Sukses", "")>>, TRUE)
        ELSE CheckoutOutcome(order, 1, 1,
                 Started(order) \o payment.log \o send(order)
                     \o <<Rec("ERROR", "Pembayaran gagal", "")>>, FALSE)

\* A checkout that reopens the order when the payment fails
run_checkout_reopen(processor, order) ==
    LET payment == process(processor, order)
        paid    == [order EXCEPT !.status = "paid"]
    IN  IF payment.result
        THEN CheckoutOutcome(paid, 1, 1,
                 Started(order) \o payment.log \o send(paid)
                     \o <<Rec("INFO", "Checkout Sukses", "")>>, TRUE)
        ELSE CheckoutOutcome([order EXCEPT !.status = "open"], 1, 0,
                 Started(order) \o payment.log
                     \o <<Rec("ERROR", "Pembayaran gagal", "")>>, FALSE)

\* A checkout that marks the order paid before it asks the processor
run_checkout_paid_first(processor, order) ==
    LET paid    == [order EXCEPT !.status = "paid"]
        payment == process(processor, paid)
    IN  IF payment.result
        THEN CheckoutOutcome(paid, 1, 1,
                 Started(order) \o payment.log \o send(paid)
                     \o <<Rec("INFO", "Checkout Sukses", "")>>, TRUE)
        ELSE CheckoutOutcome(paid, 1, 0,
                 Started(order) \o payment.log
                     \o <<Rec("ERROR", "Pembayaran gagal", "")>>, FALSE)

\* CheckoutService.run_checkout(order) of a service built with the given
\* processor and the EmailNotifier
run_checkout(processor, order) ==
    LET payment == process(processor, order)
        paid    == [order EXCEPT !.status = "paid"]
    IN  IF payment.result
        THEN CheckoutOutcome(paid, 1, 1,
                 Started(order) \o payment.log \o send(paid)
                     \o <<Rec("INFO", "Checkout Sukses", "")>>, TRUE)
        ELSE CheckoutOutcome(order, 1, 0,
                 Started(order) \o payment.log
                     \o <<Rec("ERROR", "Pembayaran gagal", "")>>, FALSE)

\* OrderManager.process_checkout(order, payment_method): it prints, it logs
\* nothing through LOGGER and it calls neither a processor nor a notifier
process_checkout(order, payment_method) ==
    IF payment_method \in {"credit_card", "bank_transfer"}
    THEN CheckoutOutcome([order EXCEPT !.status = "paid"], 0, 0, <<>>, TRUE)
    ELSE CheckoutOutcome(order, 0, 0, <<>>, FALSE)

----------------------------------------------------------------------------
(* The state machine *)

Init ==
    /\ student \in Students
    /\ courses = Catalogue
    /\ orders = InitialOrders
    /\ op = "none"
    /\ ret = FALSE
    /\ log = <<>>
    /\ validation_rules = <<>>
    /\ course_arg = "none"
    /\ pre_student = student
    /\ evaluated = <<>>
    /\ order_arg = "none"
    /\ payment_arg = "none"
    /\ pre_orders = InitialOrders
    /\ payment_calls = 0
    /\ notifier_calls = 0

\* RegistrationService(validation_rules=rules).register_course(student, courses[code])
RegisterCourse(rules, code) ==
    /\ Len(student.schedule) < MaxSchedule
    /\ LET out == register_course(rules, student, courses[code])
       IN  /\ student' = out.student
           /\ courses' = [courses EXCEPT ![code] = out.course]
           /\ ret' = out.ret
           /\ log' = out.log
           /\ evaluated' = out.evaluated
    /\ op' = "register_course"
    /\ validation_rules' = rules
    /\ course_arg' = code
    /\ pre_student' = student
    /\ pre_orders' = orders
    /\ order_arg' = "none"
    /\ payment_arg' = "none"
    /\ payment_calls' = 0
    /\ notifier_calls' = 0
    /\ UNCHANGED orders

CheckoutFrame ==
    /\ validation_rules' = <<>>
    /\ course_arg' = "none"
    /\ evaluated' = <<>>
    /\ pre_student' = student
    /\ pre_orders' = orders
    /\ UNCHANGED <<student, courses>>

\* CheckoutService(processor, EmailNotifier()).run_checkout(orders[o])
RunCheckout(processor, o) ==
    /\ LET out == run_checkout(processor, orders[o])
       IN  /\ orders' = [orders EXCEPT ![o] = out.order]
           /\ ret' = out.ret
           /\ log' = out.log
           /\ payment_calls' = out.payment_calls
           /\ notifier_calls' = out.notifier_calls
    /\ op' = "run_checkout"
    /\ order_arg' = o
    /\ payment_arg' = processor
    /\ CheckoutFrame

\* OrderManager().process_checkout(orders[o], method)
ProcessCheckout(o, method) ==
    /\ LET out == process_checkout(orders[o], method)
       IN  /\ orders' = [orders EXCEPT ![o] = out.order]
           /\ ret' = out.ret
           /\ log' = out.log
           /\ payment_calls' = out.payment_calls
           /\ notifier_calls' = out.notifier_calls
    /\ op' = "process_checkout"
    /\ order_arg' = o
    /\ payment_arg' = method
    /\ CheckoutFrame

Register == \E rules \in RuleLists, code \in DOMAIN Catalogue : RegisterCourse(rules, code)

Checkout == \E p \in Processors, o \in DOMAIN InitialOrders : RunCheckout(p, o)

LegacyCheckout ==
    \E o \in DOMAIN InitialOrders, m \in PaymentMethods : ProcessCheckout(o, m)

Next == Register \/ Checkout \/ LegacyCheckout

Spec == Init /\ [][Next]_vars

\* Coordinators whose rule list contains a SksLimitRule
SksLimitedRuleLists == { r \in RuleLists : "SksLimitRule" \in Range(r) }

RegisterSksLimited ==
    \E rules \in SksLimitedRuleLists, code \in DOMAIN Catalogue : RegisterCourse(rules, code)

NextSksLimited == RegisterSksLimited \/ Checkout \/ LegacyCheckout

SpecSksLimited == Init /\ [][NextSksLimited]_vars

----------------------------------------------------------------------------
(* Properties *)

\* The course object of the last register_course call, as constructed
ArgCourse == Catalogue[course_arg]

\* Every rule of the list accepts (s, c)
AllPass(rules, s, c) == \A i \in 1..Len(rules) : validate(rules[i], s, c).result

\* Position of the first rule of the list that rejects (s, c)
FirstFailure(rules, s, c) ==
    CHOOSE k \in 1..Len(rules) :
        /\ ~validate(rules[k], s, c).result
        /\ \A j \in 1..(k - 1) : validate(rules[j], s, c).result

IsWarning(r) == r.level = "WARNING"

Warnings(l) == SelectSeq(l, IsWarning)

ocp_rules == <<"SksLimitRule", "PrerequisiteRule", "JadwalBentrokRule">>

\* C1: register_course returns true if and only if every rule of the injected
\* list returns true for (S, C) on the state S had when the call started, and
\* S differs from that state after the call only in that case.
C1_TrueIffEveryRulePasses ==
    op = "register_course" =>
        /\ ret = AllPass(validation_rules, pre_student, ArgCourse)
        /\ (student # pre_student => AllPass(validation_rules, pre_student, ArgCourse))

\* C1 witness: a registration through the three-rule coordinator succeeded
\* and changed the student.
C1_Witness ==
    /\ op = "register_course"
    /\ validation_rules = ocp_rules
    /\ ret
    /\ student # pre_student

\* C2: a register_course step in which some injected rule rejects the student
\* as it is before the step leaves every field of the student as it was:
\* name, credit load, prerequisite flag and the schedule list with its order
\* and length.
C2_NoMutationOnFailure ==
    [][ (op' = "register_course"
         /\ ~AllPass(validation_rules', student, Catalogue[course_arg']))
        => /\ student'.name = student.name
           /\ student'.current_sks = student.current_sks
           /\ student'.prerequisites_met = student.prerequisites_met
           /\ Len(student'.schedule) = Len(student.schedule)
           /\ student'.schedule = student.schedule ]_vars

\* C2 witness: a call failed at its second rule, on a student that an earlier
\* call had already changed.
C2_Witness ==
    /\ op = "register_course"
    /\ ~ret
    /\ Len(evaluated) = 2
    /\ pre_student \notin Students
    /\ student = pre_student

\* C3: run_checkout marks the order paid, invokes the notifier and returns
\* true exactly when the processor returns true; when the processor returns
\* false the status is what it was (an open order stays open), the notifier
\* is not invoked and the call returns false.
C3_PaidAndNotifiedIffProcessed ==
    op = "run_checkout" =>
        LET before == pre_orders[order_arg]
            after  == orders[order_arg]
            ok     == process(payment_arg, before).result
        IN  /\ (after.status = "paid" /\ notifier_calls >= 1 /\ ret) <=> ok
            /\ ~ok => /\ after.status = before.status
                      /\ (before.status = "open" => after.status = "open")
                      /\ notifier_calls = 0
                      /\ ret = FALSE

\* C3 witness: a processor declined an open order.
C3_Witness ==
    /\ op = "run_checkout"
    /\ payment_arg = "DecliningProcessor"
    /\ pre_orders[order_arg].status = "open"
    /\ orders[order_arg].status = "open"
    /\ notifier_calls = 0
    /\ ~ret

StatusValues == {"open", "paid"}

\* The step takes order o from open to paid through a run_checkout call whose
\* processor returned true
PaidByRunCheckout(o) ==
    /\ orders[o].status = "open"
    /\ orders'[o].status = "paid"
    /\ op' = "run_checkout"
    /\ order_arg' = o
    /\ process(payment_arg', orders[o]).result

\* The step takes order o from open to paid through OrderManager.process_checkout
\* with a payment method it recognises
PaidByProcessCheckout(o) ==
    /\ orders[o].status = "open"
    /\ orders'[o].status = "paid"
    /\ op' = "process_checkout"
    /\ order_arg' = o
    /\ payment_arg' \in {"credit_card", "bank_transfer"}

\* C4 as stated: the status is open or paid, it changes only from open to
\* paid, only in a run_checkout call whose processor returned true, and a
\* failed run_checkout leaves it unchanged.
C4_OnlyRunCheckoutPays ==
    [][ /\ \A o \in DOMAIN orders :
              /\ orders[o].status \in StatusValues
              /\ orders'[o].status \in StatusValues
              /\ (orders'[o].status # orders[o].status => PaidByRunCheckout(o))
        /\ (op' = "run_checkout" /\ ~ret' => orders' = orders) ]_vars

\* C4 amended: the status is open or paid, it changes only from open to paid,
\* only in a run_checkout call whose processor returned true or in an
\* OrderManager.process_checkout call with payment method credit_card or
\* bank_transfer; no step moves an order from paid to open, and a failed
\* run_checkout leaves the status unchanged.
C4_OnlyCheckoutsPay ==
    [][ /\ \A o \in DOMAIN orders :
              /\ orders[o].status \in StatusValues
              /\ orders'[o].status \in StatusValues
              /\ (orders'[o].status # orders[o].status
                    => PaidByRunCheckout(o) \/ PaidByProcessCheckout(o))
        /\ (op' = "run_checkout" /\ ~ret' => orders' = orders) ]_vars

\* C4 witness: an open order was turned to paid by OrderManager.process_checkout
\* while the other order was still open.
C4_Witness ==
    /\ op = "process_checkout"
    /\ ret
    /\ pre_orders[order_arg].status = "open"
    /\ orders[order_arg].status = "paid"
    /\ \E o \in DOMAIN orders : orders[o].status = "open"

C6_SksLimitIffAtMost24 ==
    op = "register_course" =>
        /\ \A i \in 1..Len(evaluated) :
              evaluated[i].rule = "SksLimitRule" =>
                 evaluated[i].result = (pre_student.current_sks + ArgCourse.sks <= 24)
        /\ ( /\ "SksLimitRule" \in Range(validation_rules)
             /\ pre_student.current_sks = 22
             /\ ArgCourse.sks = 4 )
           => /\ ret = FALSE
              /\ student.current_sks = 22
              /\ validation_rules[1] = "SksLimitRule" =>
                    /\ evaluated = <<[rule |-> "SksLimitRule", result |-> FALSE]>>
                    /\ Warnings(log) = <<Rec("WARNING", "GAGAL SKS", pre_student.name)>>

\* C6 witness: Budi, at 22 sks, asked for the 4-sks course through the
\* three-rule coordinator.
C6_Witness ==
    /\ op = "register_course"
    /\ validation_rules = ocp_rules
    /\ pre_student.current_sks = 22
    /\ ArgCourse.sks = 4
    /\ ~ret
    /\ student.current_sks = 22

\* C7: every evaluation of JadwalBentrokRule returns true exactly when the
\* course's slot is not among the slots the student held when the call
\* started; when the slot is held the rule rejects whatever the credit-limit
\* and prerequisite rules answer, and a coordinator holding the rule returns
\* false.
C7_ConflictIffSlotHeld ==
    op = "register_course" =>
        /\ \A i \in 1..Len(evaluated) :
              evaluated[i].rule = "JadwalBentrokRule" =>
                 evaluated[i].result =
                    (ArgCourse.schedule_code \notin Range(pre_student.schedule))
        /\ ArgCourse.schedule_code \in Range(pre_student.schedule) =>
              /\ ~JadwalBentrokRule_validate(pre_student, ArgCourse).result
              /\ "JadwalBentrokRule" \in Range(validation_rules) => ret = FALSE

\* C7 witness: the credit-limit and prerequisite rules accepted and the
\* conflict rule then rejected a slot the student holds, which is not the
\* one held last.
C7_Witness ==
    /\ op = "register_course"
    /\ evaluated = <<[rule |-> "SksLimitRule", result |-> TRUE],
                     [rule |-> "PrerequisiteRule", result |-> TRUE],
                     [rule |-> "JadwalBentrokRule", result |-> FALSE]>>
    /\ ArgCourse.schedule_code = pre_student.schedule[1]
    /\ Len(pre_student.schedule) >= 2

C9_SuccessFrame ==
    [][ (op' = "register_course"
         /\ AllPass(validation_rules', student, courses[course_arg']))
        => LET c == courses[course_arg']
               n == Len(student.schedule)
           IN  /\ student'.current_sks = student.current_sks + c.sks
               /\ Len(student'.schedule) = n + 1
               /\ student'.schedule[n + 1] = c.schedule_code
               /\ SubSeq(student'.schedule, 1, n) = student.schedule
               /\ student'.name = student.name
               /\ student'.prerequisites_met = student.prerequisites_met
               /\ courses' = courses
               /\ courses' = Catalogue
               /\ ret' = TRUE ]_vars

\* C9 witness: a successful registration appended a third slot after two
\* different slots held before.
C9_Witness ==
    /\ op = "register_course"
    /\ ret
    /\ Len(pre_student.schedule) = 2
    /\ pre_student.schedule[1] # pre_student.schedule[2]
    /\ student.schedule = Append(pre_student.schedule, ArgCourse.schedule_code)

\* C10: through coordinators whose rule list contains SksLimitRule, a student
\* who starts at or below 24 sks never exceeds 24 sks.
C10_NeverAbove24 == student.current_sks <= 24

\* C10 witness: a student who had reached exactly 24 sks was refused a course
\* by the credit-limit rule.
C10_Witness ==
    /\ op = "register_course"
    /\ pre_student.current_sks = 24
    /\ ~ret
    /\ evaluated[Len(evaluated)] = [rule |-> "SksLimitRule", result |-> FALSE]
    /\ student.current_sks = 24

====
